---- MODULE Spec2Model ----
(***************************************************************************)
(* A model of the backporter command line tool (src/backporter/main.py):   *)
(* main() as a state machine over an external git working copy, the        *)
(* operator's answers and the remote API, together with the pure helpers   *)
(* main() calls.                                                           *)
(*                                                                         *)
(* Text is modelled as a sequence of one-character strings, so that        *)
(* strip(), lower(), "in" and split() are computed and not assumed.  A few *)
(* fixed words of a pull request URL ("github.com", "pull") are single     *)
(* symbols of such a sequence.                                             *)
(***************************************************************************)
EXTENDS Integers, Sequences, FiniteSets, TLC

\* ------------------------------------------------------------------ bounds

\* The longest `git status --porcelain` output a failed cherry-pick leaves.
MaxStatusLines == 2

\* ------------------------------------------------------------ text helpers

\* str.isspace() on the characters the model uses.
IsSpace(c) == c \in {" ", "\t", "\n"}

RECURSIVE LStrip(_)
LStrip(s) == IF s # <<>> /\ IsSpace(Head(s)) THEN LStrip(Tail(s)) ELSE s

RECURSIVE RStrip(_)
RStrip(s) ==
  IF s # <<>> /\ IsSpace(s[Len(s)]) THEN RStrip(SubSeq(s, 1, Len(s) - 1)) ELSE s

\* str.strip()
Strip(s) == LStrip(RStrip(s))

UpperChars == <<"A", "B", "C", "D", "E", "F", "G", "H", "I", "J", "K", "L", "M",
                "N", "O", "P", "Q", "R", "S", "T", "U", "V", "W", "X", "Y", "Z">>

LowerChars == <<"a", "b", "c", "d", "e", "f", "g", "h", "i", "j", "k", "l", "m",
                "n", "o", "p", "q", "r", "s", "t", "u", "v", "w", "x", "y", "z">>

LowerChar(c) ==
  IF \E i \in 1..Len(UpperChars) : UpperChars[i] = c
  THEN LowerChars[CHOOSE i \in 1..Len(UpperChars) : UpperChars[i] = c]
  ELSE c

\* str.lower()
Lower(s) == [i \in 1..Len(s) |-> LowerChar(s[i])]

\* The first index at which sub occurs in s, 0 when it does not (str.find + 1).
Find(s, sub) ==
  LET hits == {i \in 1..(Len(s) - Len(sub) + 1) : SubSeq(s, i, i + Len(sub) - 1) = sub}
  IN  IF hits = {} THEN 0 ELSE CHOOSE i \in hits : \A j \in hits : i <= j

\* The last index at which sub occurs in s, 0 when it does not (str.rfind + 1).
RFind(s, sub) ==
  LET hits == {i \in 1..(Len(s) - Len(sub) + 1) : SubSeq(s, i, i + Len(sub) - 1) = sub}
  IN  IF hits = {} THEN 0 ELSE CHOOSE i \in hits : \A j \in hits : i >= j

\* sub in s
Contains(s, sub) == Find(s, sub) # 0

\* s.split(sep)[-1]: the text after the last of the left-to-right,
\* non-overlapping occurrences of sep.
RECURSIVE SplitLast(_, _)
SplitLast(s, sep) ==
  LET i == Find(s, sep)
  IN  IF i = 0 THEN s ELSE SplitLast(SubSeq(s, i + Len(sep), Len(s)), sep)

\* ---------------------------------------------------------- pure functions

\* prompt_yes_no with the default turned round: an empty answer counts as yes.
prompt_yes_no_default_yes(answer, default_no) ==
  LET a == Lower(Strip(answer))
  IN  IF a = <<>> THEN default_no ELSE a \in {<<"y">>, <<"y", "e", "s">>}

\* prompt_yes_no: answer is the line read from the operator (<<>> on EOF).
prompt_yes_no(answer, default_no) ==
  LET a == Lower(Strip(answer))
  IN  IF a = <<>> THEN ~default_no ELSE a \in {<<"y">>, <<"y", "e", "s">>}

\* parse_target: [ok |-> FALSE] stands for the ValueError.
parse_target(target) ==
  LET i == RFind(target, <<":">>)
      repo == SubSeq(target, 1, i - 1)
      branch == SubSeq(target, i + 1, Len(target))
  IN  IF i = 0 \/ repo = <<>> \/ branch = <<>>
      THEN [ok |-> FALSE, repo |-> <<>>, branch |-> <<>>]
      ELSE [ok |-> TRUE, repo |-> Strip(repo), branch |-> Strip(branch)]

\* The leading digits of a URL segment: what (\d+) takes of it.
Digits == {"0", "1", "2", "3", "4", "5", "6", "7", "8", "9"}

RECURSIVE LeadingDigits(_)
LeadingDigits(s) ==
  IF s # <<>> /\ Head(s) \in Digits THEN <<Head(s)>> \o LeadingDigits(Tail(s)) ELSE <<>>

\* A url is the sequence of its "/"-separated segments, each a text.  The
\* regular expression github\.com/([^/]+)/([^/]+)/pull/(\d+) matches at
\* segment i when that segment ends with github.com and is followed by two
\* non-empty segments, the segment pull, and a segment that starts with digits.
PrUrlMatchAt(url, i) ==
  /\ i + 4 <= Len(url)
  /\ url[i] # <<>>
  /\ url[i][Len(url[i])] = "github.com"
  /\ url[i + 1] # <<>>
  /\ url[i + 2] # <<>>
  /\ url[i + 3] = <<"pull">>
  /\ LeadingDigits(url[i + 4]) # <<>>

\* parse_pr_url: [ok |-> FALSE] stands for the ValueError.
parse_pr_url(url) ==
  LET hits == {i \in 1..Len(url) : PrUrlMatchAt(url, i)}
      i == CHOOSE k \in hits : \A j \in hits : k <= j
  IN  IF hits = {}
      THEN [ok |-> FALSE, repo |-> <<>>, number |-> <<>>]
      ELSE [ok |-> TRUE, repo |-> url[i + 1] \o <<"/">> \o url[i + 2],
            number |-> LeadingDigits(url[i + 4])]

\* is_unresolved_state without the lower(): the words as written only.
is_unresolved_state_as_written(stderr) ==
  \/ Contains(stderr, <<"r", "e", "s", "o", "l", "v", "e">>)
  \/ Contains(stderr, <<"u", "n", "m", "e", "r", "g", "e", "d">>)
  \/ Contains(stderr, <<"i", "n", "d", "e", "x">>)

\* is_unresolved_state
is_unresolved_state(stderr) ==
  LET s == Lower(stderr)
  IN  \/ Contains(s, <<"r", "e", "s", "o", "l", "v", "e">>)
      \/ Contains(s, <<"u", "n", "m", "e", "r", "g", "e", "d">>)
      \/ Contains(s, <<"i", "n", "d", "e", "x">>)

\* _CONFLICT_TYPE_LABELS: its keys, and the label of a key.
ConflictCodes ==
  {<<"U", "U">>, <<"A", "A">>, <<"D", "D">>, <<"D", "U">>, <<"U", "D">>}

ConflictLabel(code) ==
  CASE code = <<"U", "U">> -> "both modified"
    [] code = <<"A", "A">> -> "both added"
    [] code = <<"D", "D">> -> "both deleted"
    [] code = <<"D", "U">> -> "modify/delete (deleted by us, changed by them)"
    [] code = <<"U", "D">> -> "modify/delete (changed by us, deleted by them)"

\* result.stdout.strip().splitlines() on an output given as its lines: the
\* blank lines at both ends go, and so does the white space that starts the
\* first line and that ends the last one.
RECURSIVE DropBlankHead(_)
DropBlankHead(lines) ==
  IF lines # <<>> /\ Strip(Head(lines)) = <<>> THEN DropBlankHead(Tail(lines)) ELSE lines

RECURSIVE DropBlankTail(_)
DropBlankTail(lines) ==
  IF lines # <<>> /\ Strip(lines[Len(lines)]) = <<>>
  THEN DropBlankTail(SubSeq(lines, 1, Len(lines) - 1))
  ELSE lines

StripSplitLines(lines) ==
  LET ls == DropBlankTail(DropBlankHead(lines))
      n == Len(ls)
  IN  IF n = 0 THEN <<>>
      ELSE IF n = 1 THEN <<RStrip(LStrip(ls[1]))>>
      ELSE <<LStrip(ls[1])>> \o SubSeq(ls, 2, n - 1) \o <<RStrip(ls[n])>>

Arrow == <<" ", "-", ">", " ">>

\* The same with the rename left as git prints it.
ConflictEntryOfBothPaths(line) ==
  LET code == SubSeq(line, 1, 2)
      rest == Strip(SubSeq(line, 4, Len(line)))
  IN  IF Len(line) < 4 THEN <<>>
      ELSE IF code \in ConflictCodes
           THEN <<[path |-> rest, label |-> ConflictLabel(code)]>>
           ELSE <<>>

\* The body of the loop of get_conflicted_entries: the entries one line adds.
ConflictEntryOf(line) ==
  LET code == SubSeq(line, 1, 2)
      rest == Strip(SubSeq(line, 4, Len(line)))
      path == IF Contains(rest, Arrow) THEN Strip(SplitLast(rest, Arrow)) ELSE rest
  IN  IF Len(line) < 4 THEN <<>>
      ELSE IF code \in ConflictCodes
           THEN <<[path |-> path, label |-> ConflictLabel(code)]>>
           ELSE <<>>

RECURSIVE ConflictEntriesOfLines(_)
ConflictEntriesOfLines(lines) ==
  IF lines = <<>> THEN <<>>
  ELSE ConflictEntryOf(Head(lines)) \o ConflictEntriesOfLines(Tail(lines))

\* get_conflicted_entries: rc and stdout are what `git status --porcelain -u`
\* returned.
get_conflicted_entries(rc, stdout) ==
  IF rc # 0 THEN <<>>
  ELSE CHOOSE entries \in {ConflictEntriesOfLines(lines) :
                             lines \in {StripSplitLines(stdout)}} : TRUE

\* ------------------------------------------------- changelog description
\* A pull request body is a text whose fixed phrases are single symbols: the
\* category header, the opening of the entry header and its closing, each in
\* the spelling of the template and in another letter case.

CategoryHeader == "Changelog category (leave one):"
EntryOpen == "Changelog entry (a"
EntryCloseInto == "of the changes that goes into CHANGELOG.md):"
EntryCloseTo == "of the changes that goes to CHANGELOG.md):"

\* str.lower() of a symbol of a body (re.IGNORECASE compares lowered text).
LowerSymbol(c) ==
  CASE c \in {CategoryHeader, "CHANGELOG CATEGORY (LEAVE ONE):"} -> "changelog category (leave one):"
    [] c \in {EntryOpen, "CHANGELOG ENTRY (A"} -> "changelog entry (a"
    [] c \in {EntryCloseInto, "OF THE CHANGES THAT GOES INTO CHANGELOG.MD):"} ->
         "of the changes that goes into changelog.md):"
    [] c \in {EntryCloseTo, "OF THE CHANGES THAT GOES TO CHANGELOG.MD):"} ->
         "of the changes that goes to changelog.md):"
    [] OTHER -> LowerChar(c)

IsCategoryHeader(c) == LowerSymbol(c) = LowerSymbol(CategoryHeader)
IsEntryOpen(c) == LowerSymbol(c) = LowerSymbol(EntryOpen)
IsEntryClose(c) == LowerSymbol(c) \in {LowerSymbol(EntryCloseInto), LowerSymbol(EntryCloseTo)}

\* The number of symbols from index i on that satisfy the test, counted up to
\* the first one that does not.
RECURSIVE SpaceRun(_, _)
SpaceRun(b, i) == IF i <= Len(b) /\ IsSpace(b[i]) THEN 1 + SpaceRun(b, i + 1) ELSE 0

RECURSIVE HashRun(_, _)
HashRun(b, i) == IF i <= Len(b) /\ b[i] = "#" THEN 1 + HashRun(b, i + 1) ELSE 0

Min(S) == CHOOSE x \in S : \A y \in S : x <= y
Max(S) == CHOOSE x \in S : \A y \in S : x >= y

\* _CATEGORY_PATTERN, ^#{0,3}\s*Changelog category \(leave one\): with
\* MULTILINE and IGNORECASE, tried at offset p (the number of symbols before
\* it): the offset the match ends at, or -1.
CategoryMatchEnd(b, p) ==
  LET h == HashRun(b, p + 1)
      w == SpaceRun(b, p + h + 1)
      at == p + h + w + 1
  IN  IF /\ (p = 0 \/ b[p] = "\n")
         /\ h <= 3
         /\ at <= Len(b)
         /\ IsCategoryHeader(b[at])
      THEN at ELSE -1

\* _ENTRY_PATTERN, Changelog entry \(a\s+.+?\s+of the changes that goes
\* (?:into|to) CHANGELOG\.md\): with IGNORECASE and DOTALL, tried at offset p
\* with the first \s+ taking k symbols: the lazy .+? grows until white space
\* and then the closing follow, so the match ends at the first closing that
\* leaves it a symbol and has white space before it.
EntryMatchEndWith(b, p, k) ==
  LET ends == {t \in (p + k + 4)..Len(b) : IsEntryClose(b[t]) /\ IsSpace(b[t - 1])}
  IN  IF ends = {} THEN -1 ELSE Min(ends)

\* The same at offset p: the first \s+ is greedy and gives symbols back one
\* at a time.
EntryMatchEnd(b, p) ==
  LET kmax == SpaceRun(b, p + 2)
      ks == {k \in 1..kmax : EntryMatchEndWith(b, p, k) # -1}
  IN  IF p + 1 <= Len(b) /\ IsEntryOpen(b[p + 1]) /\ ks # {}
      THEN EntryMatchEndWith(b, p, Max(ks)) ELSE -1

\* pattern.search(body): [start, end] of the leftmost match, or <<>>.
CategorySearch(b) ==
  LET ps == {p \in 0..Len(b) : CategoryMatchEnd(b, p) # -1}
  IN  IF ps = {} THEN <<>> ELSE <<Min(ps), CategoryMatchEnd(b, Min(ps))>>

EntrySearch(b) ==
  LET ps == {p \in 0..Len(b) : EntryMatchEnd(b, p) # -1}
  IN  IF ps = {} THEN <<>> ELSE <<Min(ps), EntryMatchEnd(b, Min(ps))>>

\* _find_line_start
find_line_start(body, pos) ==
  IF pos > 0 THEN RFind(SubSeq(body, 1, pos), <<"\n">>) ELSE 0

NextSection ==
  << <<"\n", "#", "#", "#", " ">>, <<"\n", "#", "#", " ">>, <<"\n", "\n", "-", "-", "-">> >>

\* _find_section_end
find_section_end(body, after_pos, next_patterns) ==
  LET tail == SubSeq(body, after_pos + 1, Len(body))
      found == {after_pos + Find(tail, next_patterns[i]) - 1 :
                  i \in {j \in 1..Len(next_patterns) : Contains(tail, next_patterns[j])}}
  IN  Min(found \cup {Len(body)})

\* s.split("\n")
RECURSIVE SplitLines(_)
SplitLines(s) ==
  LET i == Find(s, <<"\n">>)
  IN  IF i = 0 THEN <<s>>
      ELSE <<SubSeq(s, 1, i - 1)>> \o SplitLines(SubSeq(s, i + 1, Len(s)))

\* next((ln for ln in lines if ln.strip()), "")
RECURSIVE FirstNonBlank(_)
FirstNonBlank(lines) ==
  IF lines = <<>> THEN <<>>
  ELSE IF Strip(Head(lines)) # <<>> THEN Head(lines) ELSE FirstNonBlank(Tail(lines))

\* The reduction of the entry section to its first line and the first
\* non-blank line after it (src/backporter/changelog_extract.py).
ReduceEntry(section) ==
  LET first_nl == Find(section, <<"\n">>)
      header_line == SubSeq(section, 1, first_nl)
      rest == SubSeq(section, first_nl + 1, Len(section))
      first_content_line == Strip(FirstNonBlank(SplitLines(rest)))
  IN  IF first_nl = 0 THEN section
      ELSE IF first_content_line # <<>> THEN header_line \o first_content_line
      ELSE section

\* entry_suffix: empty unless both pr_url and pr_author are given.
EntrySuffix(pr_url, pr_author) ==
  IF pr_url # <<>> /\ pr_author # <<>>
  THEN <<" ", "(">> \o pr_url \o <<" ", "b", "y", " ", "@">> \o pr_author \o <<")">>
  ELSE <<>>

\* The suffix goes after the content that follows the first line.
AppendSuffix(section, entry_suffix) ==
  LET first_nl == Find(section, <<"\n">>)
      header == SubSeq(section, 1, first_nl)
      content == RStrip(SubSeq(section, first_nl + 1, Len(section)))
  IN  IF section # <<>> /\ entry_suffix # <<>> /\ first_nl # 0
      THEN header \o content \o entry_suffix
      ELSE section

CategoryPart(pr_body) ==
  LET m == CategorySearch(pr_body)
      start == find_line_start(pr_body, m[1])
      end == find_section_end(pr_body, m[2], NextSection)
      section == Strip(SubSeq(pr_body, start + 1, end))
  IN  IF m = <<>> THEN <<>> ELSE section

EntryPart(pr_body, pr_url, pr_author) ==
  LET m == EntrySearch(pr_body)
      start == find_line_start(pr_body, m[1])
      end == find_section_end(pr_body, m[2], NextSection)
      section == Strip(SubSeq(pr_body, start + 1, end))
  IN  IF m = <<>> THEN <<>>
      ELSE AppendSuffix(ReduceEntry(section), EntrySuffix(pr_url, pr_author))

\* The same with the parts joined by a newline, not by a blank line.
make_changelog_description_one_newline(pr_body, pr_url, pr_author) ==
  LET cat == CategoryPart(pr_body)
      entry == EntryPart(pr_body, pr_url, pr_author)
  IN  IF pr_body = <<>> THEN <<>>
      ELSE IF cat # <<>> /\ entry # <<>> THEN cat \o <<"\n">> \o entry
      ELSE IF cat # <<>> THEN cat
      ELSE entry

\* make_changelog_description (src/backporter/changelog_extract.py); an
\* absent body is the empty text, which the code treats alike.
make_changelog_description(pr_body, pr_url, pr_author) ==
  LET cat == CategoryPart(pr_body)
      entry == EntryPart(pr_body, pr_url, pr_author)
  IN  IF pr_body = <<>> THEN <<>>
      ELSE IF cat # <<>> /\ entry # <<>> THEN cat \o <<"\n", "\n">> \o entry
      ELSE IF cat # <<>> THEN cat
      ELSE entry

\* The extractor of src/changelog_extract.py, which differs from the one above
\* in the reduction of the entry section alone.

\* The entry section cut at its first newline.
changelog_extract_ReduceEntryHeaderOnly(section) ==
  LET first_nl == Find(section, <<"\n">>)
  IN  IF first_nl = 0 THEN section ELSE RStrip(SubSeq(section, 1, first_nl - 1))

\* The reduction of the entry section to what precedes its second newline,
\* with the white space at the end removed.
changelog_extract_ReduceEntry(section) ==
  LET first_nl == Find(section, <<"\n">>)
      after == Find(SubSeq(section, first_nl + 1, Len(section)), <<"\n">>)
      second_nl == IF after = 0 THEN 0 ELSE first_nl + after
  IN  IF first_nl = 0 \/ second_nl = 0 THEN section
      ELSE RStrip(SubSeq(section, 1, second_nl - 1))

changelog_extract_EntryPart(pr_body, pr_url, pr_author) ==
  LET m == EntrySearch(pr_body)
      start == find_line_start(pr_body, m[1])
      end == find_section_end(pr_body, m[2], NextSection)
      section == Strip(SubSeq(pr_body, start + 1, end))
  IN  IF m = <<>> THEN <<>>
      ELSE AppendSuffix(changelog_extract_ReduceEntry(section),
                        EntrySuffix(pr_url, pr_author))

\* make_changelog_description of src/changelog_extract.py
changelog_extract_make_changelog_description(pr_body, pr_url, pr_author) ==
  LET cat == CategoryPart(pr_body)
      entry == changelog_extract_EntryPart(pr_body, pr_url, pr_author)
  IN  IF pr_body = <<>> THEN <<>>
      ELSE IF cat # <<>> /\ entry # <<>> THEN cat \o <<"\n", "\n">> \o entry
      ELSE IF cat # <<>> THEN cat
      ELSE entry

\* ------------------------------------------------------------------ state

VARIABLES
  args,             \* the parsed command line
  wc,               \* the working copy at repo_dir, as git sees it
  wc0,              \* the working copy when the process started
  work_dir_exists,  \* whether the directory work_dir exists
  pushed,           \* the refs pushed to origin by this run
  pc,               \* the position of main()
  loc,              \* the local variables of main()
  log,              \* every command, prompt, API call and print, in order
  exit_code,        \* the exit status of the process, -1 while it runs
  traceback,        \* whether the process ended in an uncaught exception
  call              \* a helper called on its own: its name, argument and result

vars ==
  <<args, wc, wc0, work_dir_exists, pushed, pc, loc, log, exit_code, traceback, call>>

\* ---------------------------------------------------------------- inputs

\* Values of --target: absent (None or "", both false in Python), a
\* well-formed one, one without ":" and one with an empty branch.
TargetValues ==
  { <<>>,
    <<"o", "/", "r", ":", "b">>,
    <<"o", "/", "r">>,
    <<"o", "/", "r", ":">> }

\* Values of --pr: absent, a pull request of the target repository, one of
\* another repository, and a URL that is no pull request.
PrValues ==
  { <<>>,
    << <<"h", "t", "t", "p", "s", ":">>, <<>>, <<"github.com">>, <<"o">>, <<"r">>, <<"pull">>, <<"1">> >>,
    << <<"github.com">>, <<"p">>, <<"r">>, <<"pull">>, <<"2">> >>,
    << <<"github.com">>, <<"o">>, <<"r">>, <<"issues">>, <<"1">> >> }

\* What the operator types at a prompt (<<>>: an empty line or EOF).
Answers ==
  { <<>>, <<"n">>, <<"y">>, <<" ", "Y", "e", "s">> }

\* What git checkout prints when it fails.
CheckoutErrors ==
  { <<"R", "e", "s", "o", "l", "v", "e">>,
    <<"u", "n", "m", "e", "r", "g", "e", "d">>,
    <<"i", "n", "d", "e", "x">>,
    <<"p", "a", "t", "h", "s", "p", "e", "c">> }

\* Lines of `git status --porcelain -u` after a failed cherry-pick.
StatusLines ==
  { <<"U", "U", " ", "a">>,
    <<"U", "A", " ", "b">> }

RECURSIVE SeqsUpTo(_, _)
SeqsUpTo(S, n) ==
  IF n = 0 THEN {<<>>}
  ELSE LET shorter == SeqsUpTo(S, n - 1)
       IN  shorter \cup {Append(q, x) : q \in shorter, x \in S}

\* The bodies the API returns for the pull request.
PrBodies ==
  { <<>>,
    <<CategoryHeader, "\n", "x", "\n", "\n", EntryOpen, " ", "x", " ", EntryCloseInto, "\n", "\n", "x", "\n", "y">> }

\* No directory at repo_dir.
NoRepo ==
  [exists |-> FALSE, isGit |-> FALSE, head |-> "none", cherryPick |-> FALSE,
   backport |-> FALSE, status |-> <<>>, stale |-> FALSE, upstream |-> "none",
   haveCommit |-> FALSE, picked |-> FALSE]

\* A directory at repo_dir that holds no .git.
PlainDir == [NoRepo EXCEPT !.exists = TRUE]

\* What `git clone --branch <target_branch>` leaves at repo_dir.
FreshClone == [NoRepo EXCEPT !.exists = TRUE, !.isGit = TRUE, !.head = "target"]

\* The working copies a caller may name with --repo-dir: on the target
\* branch, on the backport branch or detached; with or without a cherry-pick
\* in progress, unmerged paths, a backport branch of an earlier run, a remote
\* named upstream, and a target branch that origin has moved ahead of.
ExistingRepos ==
  { w \in [exists : {TRUE}, isGit : {TRUE}, head : {"target", "backport", "detached"},
           cherryPick : BOOLEAN, backport : BOOLEAN,
           status : {<<>>, << <<"U", "U", " ", "a">> >>},
           stale : BOOLEAN, upstream : {"none", "other"},
           haveCommit : {FALSE}, picked : {FALSE}] :
      w.head = "backport" => w.backport }

NoLocals ==
  [target_repo |-> <<>>, target_branch |-> <<>>, pr_repo |-> <<>>, pr_number |-> <<>>,
   merge_sha |-> FALSE, cleanup_work_dir |-> FALSE, conflicted |-> <<>>,
   current_branch |-> "none", pending |-> 0]

\* No helper is called on its own while main() runs.
NoCall == [fn |-> "none", arg |-> <<>>, returned |-> FALSE, ret |-> <<>>]

Init ==
  /\ args \in [conflicts_resolved : BOOLEAN, repo_dir : BOOLEAN, work_dir : BOOLEAN,
               make_description : BOOLEAN, target : TargetValues, pr : PrValues]
  /\ wc \in IF args.repo_dir THEN ExistingRepos \cup {NoRepo, PlainDir}
            ELSE IF args.work_dir THEN {NoRepo, FreshClone}
            ELSE {NoRepo}
  /\ wc0 = wc
  /\ work_dir_exists \in IF ~args.repo_dir /\ args.work_dir
                         THEN (IF wc.exists THEN {TRUE} ELSE BOOLEAN)
                         ELSE {FALSE}
  /\ pushed = {}
  /\ pc = "start"
  /\ loc = NoLocals
  /\ log = <<>>
  /\ exit_code = -1
  /\ traceback = FALSE
  /\ call = NoCall

\* ------------------------------------------------------- steps of main()

Event(op, arg, rc, txt) == [op |-> op, arg |-> arg, rc |-> rc, txt |-> txt]

Cmd(op, rc) == Event("git", op, rc, <<>>)

Say(what) == Event("print", what, 0, <<>>)

\* The process ends with the given status; s extends the log.
Exit(code, s) ==
  /\ pc' = "done"
  /\ exit_code' = code
  /\ traceback' = FALSE
  /\ log' = s

\* An exception nothing catches: Python prints the traceback and exits 1.
Uncaught(s) ==
  /\ pc' = "done"
  /\ exit_code' = 1
  /\ traceback' = TRUE
  /\ log' = s

\* The status of parser.error (argparse) and of sys.exit(1) on an error.
UsageStatus == 2
ErrorStatus == 1

\* The declined prompt ending as an error does.
DeclineAsError == ErrorStatus

\* The argument of _print_description_and_exit after a declined prompt.
DeclineStatus == 0

\* The conflict report ending as a success does, and with a status of its own.
ConflictAsSuccess == DeclineStatus
ConflictAsUsage == UsageStatus

\* The argument of sys.exit after the conflict report.
ConflictStatus == 1

\* main() moves on to the step named label.
Goto(label, s) ==
  /\ pc' = label
  /\ log' = s
  /\ UNCHANGED <<exit_code, traceback>>

\* ---------------------------------------------------------------- git
\* What the git commands main() issues answer and do, as far as main() can
\* tell the difference.  A command that needs the network may fail at any
\* time; a failed command leaves the working copy as it was.

NetworkRcs == {0, 1}

\* git rev-parse -q --verify CHERRY_PICK_HEAD
GitVerifyCherryPickHead(w) == IF w.cherryPick THEN 0 ELSE 1

\* git rev-parse --verify refs/heads/<backport_branch>
GitVerifyBackportBranch(w) == IF w.backport THEN 0 ELSE 1

\* git branch -D <backport_branch>: the branch must exist and not be checked out.
GitBranchDelete(w) == IF w.backport /\ w.head # "backport" THEN 0 ELSE 1

\* git checkout -b <backport_branch>: the branch must not exist.
GitCheckoutNew(w) == IF w.backport THEN 1 ELSE 0

\* git cherry-pick --abort: there must be a cherry-pick to abort.
GitCherryPickAbort(w) == IF w.cherryPick THEN 0 ELSE 1

\* git checkout <target_branch> refuses while paths are unmerged; when it
\* switches the branch it also drops the state of a cherry-pick in progress.
GitCheckoutRcs(w) == IF w.status = <<>> THEN {0, 1} ELSE {1}

\* git cherry-pick --continue refuses while paths are unmerged.
GitContinueRcs(w) == IF w.status = <<>> THEN {0, 1} ELSE {1}

\* git clone refuses a destination that exists.
GitCloneRcs(w) == IF w.exists THEN {128} ELSE {0, 128}

\* git fetch upstream <sha> needs the remote.
GitFetchUpstreamRcs(w) == IF w.upstream = "none" THEN {128} ELSE {0, 128}

\* What git remote add prints when it fails: that the remote exists, in the
\* words the code looks for or in other words (another locale, another cause).
RemoteAddErrors ==
  { <<"error: remote upstream ", "already exists", ".">>,
    <<"Fehler: externes Repository upstream existiert bereits.">> }

\* branch_exists
branch_exists(w) == GitVerifyBackportBranch(w) = 0

\* is_cherry_pick_in_progress without the look at the return code.
is_cherry_pick_in_progress_unchecked(w) == GitVerifyCherryPickHead(w) \in {0, 1}

\* is_cherry_pick_in_progress
is_cherry_pick_in_progress(w) == GitVerifyCherryPickHead(w) = 0

\* cleanup_work_dir never set, and set whenever the tool clones.
cleanup_work_dir_never(a) == FALSE
cleanup_work_dir_any_clone(a) == ~a.repo_dir

\* cleanup_work_dir, as main() sets it when it picks the working copy.
cleanup_work_dir(a) == IF a.repo_dir THEN FALSE ELSE ~a.work_dir

\* The test main() makes of the cherry-pick's return code.
ReplayFailedNever(rc) == FALSE

ReplayFailed(rc) == rc # 0

\* The test main() makes of the list get_conflicted_entries returned.
HasConflictsWhenSeveral(conflicted) == Len(conflicted) > 1

HasConflicts(conflicted) == conflicted # <<>>

\* ------------------------------------------------------ resume workflow

\* main(), lines 205-215: the checks of --conflicts-resolved.
ResumeCheck ==
  /\ pc = "start"
  /\ args.conflicts_resolved
  /\ LET t == parse_target(args.target)
         probe == Cmd("rev-parse CHERRY_PICK_HEAD", GitVerifyCherryPickHead(wc))
     IN  IF ~args.repo_dir \/ args.target = <<>>
         THEN Exit(UsageStatus, Append(log, Say("usage"))) /\ UNCHANGED loc
         ELSE IF ~t.ok
         THEN Uncaught(log) /\ UNCHANGED loc
         ELSE /\ loc' = [loc EXCEPT !.target_repo = t.repo]
              /\ IF ~(wc.exists /\ wc.isGit)
                 THEN Exit(ErrorStatus, Append(log, Say("Error: not a git repository")))
                 ELSE IF ~is_cherry_pick_in_progress(wc)
                 THEN Exit(ErrorStatus,
                           log \o <<probe, Say("Error: no cherry-pick in progress")>>)
                 ELSE Goto("resume_add", Append(log, probe))
  /\ UNCHANGED <<call, args, wc, wc0, work_dir_exists, pushed>>

\* lines 216-217: git add . (checked, outside any try).
ResumeAdd ==
  /\ pc = "resume_add"
  /\ \E rc \in {0, 1} :
       IF rc = 0
       THEN /\ wc' = [wc EXCEPT !.status = <<>>]
            /\ Goto("resume_continue", log \o <<Say("Staging"), Cmd("add .", rc)>>)
       ELSE /\ wc' = wc
            /\ Uncaught(log \o <<Say("Staging"), Cmd("add .", rc)>>)
  /\ UNCHANGED <<call, args, wc0, work_dir_exists, pushed, loc>>

\* The return code of git cherry-pick --continue not looked at.
ContinueFailedNever(rc) == FALSE

\* line 225: the test of the return code of git cherry-pick --continue.
ContinueFailed(rc) == rc # 0

\* lines 218-227: git cherry-pick --continue with GIT_EDITOR=true.
ResumeContinue ==
  /\ pc = "resume_continue"
  /\ \E rc \in GitContinueRcs(wc) :
       /\ wc' = IF rc = 0 THEN [wc EXCEPT !.cherryPick = FALSE, !.picked = TRUE] ELSE wc
       /\ IF ContinueFailed(rc)
          THEN Exit(ErrorStatus,
                    log \o <<Say("Continuing"), Cmd("cherry-pick --continue", rc), Say("stderr")>>)
          ELSE Goto("resume_branch",
                    log \o <<Say("Continuing"), Cmd("cherry-pick --continue", rc)>>)
  /\ UNCHANGED <<call, args, wc0, work_dir_exists, pushed, loc>>

\* line 228, get_current_branch: git branch --show-current prints nothing on
\* a detached HEAD.
ResumeCurrentBranch ==
  /\ pc = "resume_branch"
  /\ \E rc \in {0, 1} :
       IF rc # 0 \/ wc.head = "detached"
       THEN Uncaught(Append(log, Cmd("branch --show-current", rc))) /\ UNCHANGED loc
       ELSE /\ loc' = [loc EXCEPT !.current_branch = wc.head]
            /\ Goto("resume_push", Append(log, Cmd("branch --show-current", rc)))
  /\ UNCHANGED <<call, args, wc, wc0, work_dir_exists, pushed>>

\* lines 229-232: git push origin <current_branch> (checked), then exit 0.
ResumePush ==
  /\ pc = "resume_push"
  /\ \E rc \in NetworkRcs :
       LET ev == Event("push", loc.current_branch, rc, <<>>)
       IN  IF rc # 0
           THEN Uncaught(log \o <<Say("Pushing"), ev, Say("stderr")>>) /\ pushed' = pushed
           ELSE /\ pushed' = pushed \cup {loc.current_branch}
                /\ Exit(0, log \o <<Say("Pushing"), ev, Say("Done")>>)
  /\ UNCHANGED <<call, args, wc, wc0, work_dir_exists, loc>>

\* ----------------------------------------------------- primary workflow

\* --make-description sending main() to the description alone whatever
\* --target says.
AfterPrUrlTargetUnread(a) ==
  IF a.make_description THEN "description_only" ELSE "parse_target"

\* lines 241-254: where main() goes once parse_pr_url has returned.
AfterPrUrl(a) ==
  IF a.make_description /\ a.target = <<>> THEN "description_only" ELSE "parse_target"

\* main(), lines 234-239: the required arguments and parse_pr_url.
CheckArgs ==
  /\ pc = "start"
  /\ ~args.conflicts_resolved
  /\ LET u == parse_pr_url(args.pr)
     IN  IF args.pr = <<>> \/ (~args.make_description /\ args.target = <<>>)
         THEN Exit(UsageStatus, Append(log, Say("usage"))) /\ UNCHANGED loc
         ELSE IF ~u.ok
         THEN Uncaught(log) /\ UNCHANGED loc
         ELSE /\ loc' = [loc EXCEPT !.pr_repo = u.repo, !.pr_number = u.number]
              /\ Goto(AfterPrUrl(args), log)
  /\ UNCHANGED <<call, args, wc, wc0, work_dir_exists, pushed>>

\* The pull request record of the API as the description needs it, and the
\* print of the description under its banner when it is not empty.
PrUrl == <<"u">>
PrAuthor == <<"a">>

\* The description left out: no call of the API, nothing rendered.
DescriptionUnrendered(description) == <<>>

DescriptionEvents(description) ==
  <<Event("api", "get_pull", 0, <<>>),
    Event("render", "make_changelog_description", 0, description)>>
  \o (IF description # <<>> THEN <<Event("print", "description", 0, description)>> ELSE <<>>)

\* lines 241-252: --make-description alone prints the description, empty or
\* not, and returns.
DescriptionOnly ==
  /\ pc = "description_only"
  /\ \E body \in PrBodies :
       \E description \in {make_changelog_description(body, PrUrl, PrAuthor)} :
         Exit(0, log \o <<Event("api", "get_pull", 0, <<>>),
                          Event("render", "make_changelog_description", 0, description),
                          Event("print", "description", 0, description)>>)
  /\ UNCHANGED <<call, args, wc, wc0, work_dir_exists, pushed, loc>>

\* lines 254-258: parse_target and the names derived from it.
ParseTarget ==
  /\ pc = "parse_target"
  /\ LET t == parse_target(args.target)
     IN  IF ~t.ok
         THEN Uncaught(log) /\ UNCHANGED loc
         ELSE /\ loc' = [loc EXCEPT !.target_repo = t.repo, !.target_branch = t.branch]
              /\ Goto("merge_sha", log)
  /\ UNCHANGED <<call, args, wc, wc0, work_dir_exists, pushed>>

\* What the API record of the pull request says of its merge.
PullState(merged, has_sha) ==
  IF ~merged THEN <<"not merged">>
  ELSE IF ~has_sha THEN <<"no merge commit">>
  ELSE <<"merged">>

\* get_merge_commit_sha looking at pr.merged only.
NotBackportableUnlessMerged(merged, has_sha) == ~merged

\* The two tests of get_merge_commit_sha that raise RuntimeError.
NotBackportable(merged, has_sha) == ~merged \/ ~has_sha

\* lines 260-262, get_merge_commit_sha: the RuntimeError of a pull request
\* that is not merged, or has no merge commit, is raised outside the try.
GetMergeCommitSha ==
  /\ pc = "merge_sha"
  /\ \E merged \in BOOLEAN, has_sha \in BOOLEAN :
       LET s == log \o <<Say("Fetching PR"),
                         Event("api", "get_pull", 0, PullState(merged, has_sha))>>
       IN  IF NotBackportable(merged, has_sha)
           THEN Uncaught(s) /\ UNCHANGED loc
           ELSE /\ loc' = [loc EXCEPT !.merge_sha = TRUE]
                /\ Goto("working_copy", s)
  /\ UNCHANGED <<call, args, wc, wc0, work_dir_exists, pushed>>

\* lines 264-273: the working copy is the caller's, or a clone to be made in
\* --work-dir or in a fresh temporary directory.
PickWorkingCopy ==
  /\ pc = "working_copy"
  /\ IF args.repo_dir
     THEN /\ work_dir_exists' = work_dir_exists
          /\ IF ~(wc.exists /\ wc.isGit)
             THEN /\ Exit(ErrorStatus, Append(log, Say("Error: not a git repository")))
                  /\ UNCHANGED loc
             ELSE /\ loc' = [loc EXCEPT !.cleanup_work_dir = cleanup_work_dir(args)]
                  /\ Goto("fetch_target", log)
     ELSE /\ loc' = [loc EXCEPT !.cleanup_work_dir = cleanup_work_dir(args)]
          /\ IF args.work_dir
             THEN work_dir_exists' = work_dir_exists /\ Goto("clone", log)
             ELSE work_dir_exists' = TRUE
                  /\ Goto("clone", Append(log, Event("fs", "mkdtemp", 0, <<>>)))
  /\ UNCHANGED <<call, args, wc, wc0, pushed>>

\* run() with check=False: the return code is not looked at.
RunUnchecked(op, rc, next, before) ==
  Goto(next, log \o before \o <<Cmd(op, rc)>>)

\* run() trying the command again when it fails.
RunRetrying(op, rc, next, before) ==
  IF rc # 0
  THEN Goto(pc, log \o before \o <<Cmd(op, rc), Say("stderr")>>)
  ELSE Goto(next, log \o before \o <<Cmd(op, rc)>>)

\* run() of a git command inside the try: a non-zero return code prints the
\* stderr and raises RuntimeError, which the except clause takes.
Run(op, rc, next, before) ==
  IF rc # 0
  THEN Goto("except", log \o before \o <<Cmd(op, rc), Say("stderr")>>)
  ELSE Goto(next, log \o before \o <<Cmd(op, rc)>>)

\* line 294: git fetch origin <target_branch>.
FetchTarget ==
  /\ pc = "fetch_target"
  /\ \E rc \in NetworkRcs :
       /\ wc' = IF rc = 0 THEN [wc EXCEPT !.stale = FALSE] ELSE wc
       /\ Run("fetch origin target", rc, "checkout_target", <<Say("Fetching latest")>>)
  /\ UNCHANGED <<call, args, wc0, work_dir_exists, pushed, loc>>

\* lines 295-297 and 307-310: git checkout <target_branch>, unchecked, and
\* what main() makes of its failure.
CheckoutTarget ==
  /\ pc = "checkout_target"
  /\ \E rc \in GitCheckoutRcs(wc), err \in CheckoutErrors :
       LET stderr == IF rc = 0 THEN <<>> ELSE err
           ev == Event("git", "checkout target", rc, stderr)
       IN  /\ wc' = IF rc = 0 THEN [wc EXCEPT !.head = "target", !.cherryPick = FALSE] ELSE wc
           /\ IF rc # 0 /\ is_unresolved_state(stderr)
              THEN Goto("recovery_prompt", log \o <<ev, Say("stderr")>>)
              ELSE IF rc # 0
              THEN Goto("except", log \o <<ev, Say("stderr")>>)
              ELSE Goto("pull_target", Append(log, ev))
  /\ UNCHANGED <<call, args, wc0, work_dir_exists, pushed, loc>>

\* lines 298-302: the prompt of the destructive recovery; declining prints
\* the description and exits through _print_description_and_exit(0).
RecoveryPrompt ==
  /\ pc = "recovery_prompt"
  /\ \E answer \in Answers :
       LET yes == prompt_yes_no(answer, TRUE)
           ev == Event("prompt", "recreate from clean target", IF yes THEN 1 ELSE 0, answer)
       IN  IF ~yes
           THEN /\ loc' = [loc EXCEPT !.pending = DeclineStatus]
                /\ Goto("describe_exit", log \o <<ev, Say("Leaving repo as is.")>>)
           ELSE /\ loc' = loc
                /\ Goto("abort", Append(log, ev))
  /\ UNCHANGED <<call, args, wc, wc0, work_dir_exists, pushed>>

\* line 303: git cherry-pick --abort, unchecked.
CherryPickAbort ==
  /\ pc = "abort"
  /\ LET rc == GitCherryPickAbort(wc)
     IN  /\ wc' = IF rc = 0 THEN [wc EXCEPT !.cherryPick = FALSE, !.status = <<>>] ELSE wc
         /\ Goto("checkout_again", Append(log, Cmd("cherry-pick --abort", rc)))
  /\ UNCHANGED <<call, args, wc0, work_dir_exists, pushed, loc>>

\* line 304: git checkout <target_branch> again, checked.
CheckoutAgain ==
  /\ pc = "checkout_again"
  /\ \E rc \in GitCheckoutRcs(wc) :
       /\ wc' = IF rc = 0 THEN [wc EXCEPT !.head = "target", !.cherryPick = FALSE] ELSE wc
       /\ Run("checkout target", rc, "pull_recovered", <<>>)
  /\ UNCHANGED <<call, args, wc0, work_dir_exists, pushed, loc>>

\* line 305: git pull origin <target_branch> in the recovery.
PullRecovered ==
  /\ pc = "pull_recovered"
  /\ \E rc \in NetworkRcs :
       /\ wc' = IF rc = 0 THEN [wc EXCEPT !.stale = FALSE] ELSE wc
       /\ Run("pull origin target", rc, "delete_stale", <<>>)
  /\ UNCHANGED <<call, args, wc0, work_dir_exists, pushed, loc>>

\* line 306: git branch -D <backport_branch> in the recovery, checked.
DeleteStaleBranch ==
  /\ pc = "delete_stale"
  /\ LET rc == GitBranchDelete(wc)
     IN  /\ wc' = IF rc = 0 THEN [wc EXCEPT !.backport = FALSE] ELSE wc
         /\ Run("branch -D backport", rc, "branch_exists", <<>>)
  /\ UNCHANGED <<call, args, wc0, work_dir_exists, pushed, loc>>

\* line 311: git pull origin <target_branch> after a checkout that worked.
PullTarget ==
  /\ pc = "pull_target"
  /\ \E rc \in NetworkRcs :
       /\ wc' = IF rc = 0 THEN [wc EXCEPT !.stale = FALSE] ELSE wc
       /\ Run("pull origin target", rc, "branch_exists", <<>>)
  /\ UNCHANGED <<call, args, wc0, work_dir_exists, pushed, loc>>

\* lines 313-315: git clone --branch <target_branch> <clone_url> <repo_dir>.
Clone ==
  /\ pc = "clone"
  /\ \E rc \in GitCloneRcs(wc) :
       /\ wc' = IF rc = 0 THEN FreshClone ELSE wc
       /\ work_dir_exists' = IF rc = 0 THEN TRUE ELSE work_dir_exists
       /\ Run("clone", rc, "branch_exists", <<Say("Cloning")>>)
  /\ UNCHANGED <<call, args, wc0, pushed, loc>>

\* line 318: branch_exists(repo_dir, backport_branch).
BranchExists ==
  /\ pc = "branch_exists"
  /\ Goto(IF branch_exists(wc) THEN "branch_prompt" ELSE "create_branch",
          Append(log, Cmd("rev-parse backport", GitVerifyBackportBranch(wc))))
  /\ UNCHANGED <<call, args, wc, wc0, work_dir_exists, pushed, loc>>

\* lines 319-323: the prompt before the branch is deleted and recreated.
BranchPrompt ==
  /\ pc = "branch_prompt"
  /\ \E answer \in Answers :
       LET yes == prompt_yes_no(answer, TRUE)
           ev == Event("prompt", "delete and recreate", IF yes THEN 1 ELSE 0, answer)
       IN  IF ~yes
           THEN /\ loc' = [loc EXCEPT !.pending = DeclineStatus]
                /\ Goto("describe_exit", log \o <<ev, Say("Aborted.")>>)
           ELSE /\ loc' = loc
                /\ Goto("delete_branch", Append(log, ev))
  /\ UNCHANGED <<call, args, wc, wc0, work_dir_exists, pushed>>

\* line 324: git branch -D <backport_branch>, checked.
DeleteBranch ==
  /\ pc = "delete_branch"
  /\ LET rc == GitBranchDelete(wc)
     IN  /\ wc' = IF rc = 0 THEN [wc EXCEPT !.backport = FALSE] ELSE wc
         /\ Run("branch -D backport", rc, "create_branch", <<>>)
  /\ UNCHANGED <<call, args, wc0, work_dir_exists, pushed, loc>>

\* lines 326-328: git checkout -b <backport_branch>, checked.
CreateBranch ==
  /\ pc = "create_branch"
  /\ LET rc == GitCheckoutNew(wc)
     IN  /\ wc' = IF rc = 0 THEN [wc EXCEPT !.backport = TRUE, !.head = "backport"] ELSE wc
         /\ Run("checkout -b backport", rc, "fetch_commit", <<Say("Creating branch")>>)
  /\ UNCHANGED <<call, args, wc0, work_dir_exists, pushed, loc>>

\* lines 332-333: the merge commit comes from origin when the pull request
\* is one of the target repository.
FetchFromOrigin ==
  /\ pc = "fetch_commit"
  /\ loc.target_repo = loc.pr_repo
  /\ \E rc \in NetworkRcs :
       /\ wc' = IF rc = 0 THEN [wc EXCEPT !.haveCommit = TRUE] ELSE wc
       /\ Run("fetch origin sha", rc, "cherry_pick", <<>>)
  /\ UNCHANGED <<call, args, wc0, work_dir_exists, pushed, loc>>

\* lines 334-341: git remote add upstream <pr_fetch_url>, unchecked, and
\* git remote set-url, checked, when the stderr says the remote already exists.
RemoteAdd ==
  /\ pc = "fetch_commit"
  /\ loc.target_repo # loc.pr_repo
  /\ \E err \in RemoteAddErrors :
       LET rc == IF wc.upstream = "none" THEN 0 ELSE 3
           stderr == IF rc = 0 THEN <<>> ELSE err
           add == Event("git", "remote add upstream", rc, stderr)
       IN  IF rc # 0 /\ Contains(stderr, <<"already exists">>)
           THEN /\ wc' = [wc EXCEPT !.upstream = "source"]
                /\ Goto("fetch_upstream", log \o <<add, Cmd("remote set-url upstream", 0)>>)
           ELSE /\ wc' = IF rc = 0 THEN [wc EXCEPT !.upstream = "source"] ELSE wc
                /\ Goto("fetch_upstream", Append(log, add))
  /\ UNCHANGED <<call, args, wc0, work_dir_exists, pushed, loc>>

\* lines 342-343: git fetch upstream <merge_sha>, checked.
FetchFromUpstream ==
  /\ pc = "fetch_upstream"
  /\ \E rc \in GitFetchUpstreamRcs(wc) :
       /\ wc' = IF rc = 0 THEN [wc EXCEPT !.haveCommit = TRUE] ELSE wc
       /\ Run("fetch upstream sha", rc, "cherry_pick", <<Say("Fetching from upstream")>>)
  /\ UNCHANGED <<call, args, wc0, work_dir_exists, pushed, loc>>

\* lines 345-349: git cherry-pick -m 1 <merge_sha> --no-edit, unchecked.  It
\* succeeds, or stops on unmerged paths with the cherry-pick in progress, or
\* fails leaving no unmerged path (with or without CHERRY_PICK_HEAD).
CherryPick ==
  /\ pc = "cherry_pick"
  /\ \E rc \in {0, 1}, lines \in SeqsUpTo(StatusLines, MaxStatusLines), head \in BOOLEAN :
       /\ rc = 0 => lines = <<>> /\ ~head
       /\ lines # <<>> => head
       /\ wc' = IF rc = 0 THEN [wc EXCEPT !.picked = TRUE]
                ELSE [wc EXCEPT !.cherryPick = head, !.status = lines]
       /\ Goto(IF ReplayFailed(rc) THEN "replay_failed" ELSE "push",
               log \o <<Say("Cherry-picking"), Cmd("cherry-pick -m 1", rc)>>)
  /\ UNCHANGED <<call, args, wc0, work_dir_exists, pushed, loc>>

\* The lines main() prints for the conflicted entries, one each.
RECURSIVE ConflictReport(_)
ConflictReport(entries) ==
  IF entries = <<>> THEN <<>>
  ELSE <<Event("print", Head(entries).label, 0, Head(entries).path)>>
       \o ConflictReport(Tail(entries))

\* lines 365-388: the failed cherry-pick is a conflict to report when
\* get_conflicted_entries finds entries, and a RuntimeError when it finds none.
ReplayFailure ==
  /\ pc = "replay_failed"
  /\ \E rc \in {0, 128} :
     \E conflicted \in {get_conflicted_entries(rc, wc.status)} :
       LET s == log \o <<Say("stderr"), Cmd("status --porcelain -u", rc)>>
       IN  IF HasConflicts(conflicted)
           THEN /\ loc' = [loc EXCEPT !.conflicted = conflicted, !.pending = ConflictStatus]
                /\ Goto("describe",
                        s \o <<Say("Conflicts in files")>> \o ConflictReport(conflicted)
                          \o <<Say("Resolve conflicts, then run"), Say("Or after resolving")>>)
           ELSE /\ loc' = loc
                /\ Goto("except", s)
  /\ UNCHANGED <<call, args, wc, wc0, work_dir_exists, pushed>>

\* lines 390-394: git push origin <backport_branch>, checked.
Push ==
  /\ pc = "push"
  /\ \E rc \in NetworkRcs :
       LET ev == Event("push", "backport", rc, <<>>)
       IN  /\ pushed' = IF rc = 0 THEN pushed \cup {"backport"} ELSE pushed
           /\ loc' = [loc EXCEPT !.pending = 0]
           /\ IF rc # 0
              THEN Goto("except", log \o <<Say("Pushing"), ev, Say("stderr")>>)
              ELSE Goto("describe", log \o <<Say("Pushing"), ev, Say("Done")>>)
  /\ UNCHANGED <<call, args, wc, wc0, work_dir_exists>>

\* lines 351-363, _print_description, called at line 384 before sys.exit(1)
\* and at line 395 where the try block ends.
PrintDescription ==
  /\ pc = "describe"
  /\ \E body \in PrBodies :
       \E description \in {make_changelog_description(body, PrUrl, PrAuthor)} :
         Goto("finally",
              log \o (IF args.make_description THEN DescriptionEvents(description) ELSE <<>>))
  /\ UNCHANGED <<call, args, wc, wc0, work_dir_exists, pushed, loc>>

\* lines 275-288, _print_description_and_exit.
PrintDescriptionAndExit ==
  /\ pc = "describe_exit"
  /\ \E body \in PrBodies :
       \E description \in {make_changelog_description(body, PrUrl, PrAuthor)} :
         Goto("finally",
              log \o (IF args.make_description THEN DescriptionEvents(description) ELSE <<>>))
  /\ UNCHANGED <<call, args, wc, wc0, work_dir_exists, pushed, loc>>

\* lines 397-399: except RuntimeError prints the error and calls sys.exit(1).
ExceptRuntimeError ==
  /\ pc = "except"
  /\ loc' = [loc EXCEPT !.pending = ErrorStatus]
  /\ Goto("finally", Append(log, Say("Error")))
  /\ UNCHANGED <<call, args, wc, wc0, work_dir_exists, pushed>>

\* lines 400-402: the finally clause removes work_dir when cleanup_work_dir
\* is set; then the process ends with the pending status.
Finally ==
  /\ pc = "finally"
  /\ IF loc.cleanup_work_dir
     THEN /\ wc' = NoRepo
          /\ work_dir_exists' = FALSE
          /\ Exit(loc.pending, Append(log, Event("fs", "rmtree", 0, <<>>)))
     ELSE /\ UNCHANGED <<wc, work_dir_exists>>
          /\ Exit(loc.pending, log)
  /\ UNCHANGED <<call, args, wc0, pushed, loc>>

Next ==
  \/ ResumeCheck
  \/ ResumeAdd
  \/ ResumeContinue
  \/ ResumeCurrentBranch
  \/ ResumePush
  \/ CheckArgs
  \/ DescriptionOnly
  \/ ParseTarget
  \/ GetMergeCommitSha
  \/ PickWorkingCopy
  \/ FetchTarget
  \/ CheckoutTarget
  \/ RecoveryPrompt
  \/ CherryPickAbort
  \/ CheckoutAgain
  \/ PullRecovered
  \/ DeleteStaleBranch
  \/ PullTarget
  \/ Clone
  \/ BranchExists
  \/ BranchPrompt
  \/ DeleteBranch
  \/ CreateBranch
  \/ FetchFromOrigin
  \/ RemoteAdd
  \/ FetchFromUpstream
  \/ CherryPick
  \/ ReplayFailure
  \/ Push
  \/ PrintDescription
  \/ PrintDescriptionAndExit
  \/ ExceptRuntimeError
  \/ Finally

Spec == Init /\ [][Next]_vars

\* ------------------------------------------------- the helpers on their own
\* A second specification: one call of a pure helper of main(), on an
\* argument drawn from a bounded set, with main() not running.

\* The longest --target value tried, and the characters it is made of.
MaxTargetLen == 4

TargetChars == {"o", ":", " "}

\* The longest output of git status tried, and the lines it is made of: one
\* for each conflict code, one-sided adds, a change of the work tree, an
\* untracked file, a rename, and a conflict on a renamed path.
MaxPorcelainLines == 2

PorcelainLines ==
  { <<"U", "U", " ", "a">>, <<"A", "A", " ", "b">>, <<"D", "D", " ", "c">>,
    <<"D", "U", " ", "d">>, <<"U", "D", " ", "e">>, <<"U", "A", " ", "f">>,
    <<"A", "U", " ", "g">>, <<" ", "M", " ", "h">>, <<"?", "?", " ", "i">>,
    <<"R", " ", " ", "j", " ", "-", ">", " ", "k">>,
    <<"U", "U", " ", "l", " ", "-", ">", " ", "m">> }

\* Pull request bodies: text before the template or none, a category
\* section or none, an entry header or none (on one line, with or without
\* the ###, or wrapped over two lines), up to MaxContentLines lines after
\* the header (blank, or with content), and what follows the entry.
MaxContentLines == 2

BodyPrefixes == {<<>>, <<"x", "\n">>}

BodyCategories ==
  { <<>>,
    <<"#", "#", "#", " ", CategoryHeader, "\n", "-", " ", "x", "\n">>,
    <<"CHANGELOG CATEGORY (LEAVE ONE):", "\n", "\n", "x", "\n">> }

BodyEntryHeaders ==
  { <<"#", "#", "#", " ", EntryOpen, " ", "x", " ", EntryCloseInto>>,
    <<EntryOpen, " ", "[", "x", "]", " ", EntryCloseTo>>,
    <<"#", "#", "#", " ", EntryOpen, " ", "x", "\n", EntryCloseTo>> }

BodyContentLines == {<<>>, <<"y">>, <<" ", "z", " ">>}

BodyTrailers ==
  {<<>>, <<"\n", "#", "#", " ", "t">>, <<"\n", "\n", "-", "-", "-", "\n", "t">>}

\* The lines, each after a newline.
RECURSIVE AfterNewlines(_)
AfterNewlines(lines) ==
  IF lines = <<>> THEN <<>> ELSE <<"\n">> \o Head(lines) \o AfterNewlines(Tail(lines))

Bodies ==
  {pre \o cat \o tr : pre \in BodyPrefixes, cat \in BodyCategories, tr \in BodyTrailers}
  \cup {pre \o cat \o hd \o AfterNewlines(lines) \o tr :
          pre \in BodyPrefixes, cat \in BodyCategories, hd \in BodyEntryHeaders,
          lines \in SeqsUpTo(BodyContentLines, MaxContentLines), tr \in BodyTrailers}

\* pr_url and pr_author: both given, or neither.
Attributions == {[url |-> <<>>, author |-> <<>>], [url |-> PrUrl, author |-> PrAuthor]}

Call(fn, arg) == [fn |-> fn, arg |-> arg, returned |-> FALSE, ret |-> <<>>]

CallsInit ==
  /\ args = [conflicts_resolved |-> FALSE, repo_dir |-> FALSE, work_dir |-> FALSE,
             make_description |-> FALSE, target |-> <<>>, pr |-> <<>>]
  /\ wc = NoRepo
  /\ wc0 = NoRepo
  /\ work_dir_exists = FALSE
  /\ pushed = {}
  /\ pc = "call"
  /\ loc = NoLocals
  /\ log = <<>>
  /\ exit_code = -1
  /\ traceback = FALSE
  /\ call \in
       {Call("parse_target", s) : s \in SeqsUpTo(TargetChars, MaxTargetLen)}
       \cup {Call("get_conflicted_entries", [rc |-> rc, stdout |-> lines]) :
               rc \in {0, 128}, lines \in SeqsUpTo(PorcelainLines, MaxPorcelainLines)}
       \cup {Call("make_changelog_description",
                  [body |-> b, url |-> at.url, author |-> at.author]) :
               b \in Bodies, at \in Attributions}
       \cup {Call("changelog_extract.make_changelog_description",
                  [body |-> b, url |-> at.url, author |-> at.author]) :
               b \in Bodies, at \in Attributions}

\* The call returns (or raises: ret.ok is FALSE).
Return(ret) ==
  /\ call' = [call EXCEPT !.returned = TRUE, !.ret = ret]
  /\ UNCHANGED <<args, wc, wc0, work_dir_exists, pushed, pc, loc, log, exit_code, traceback>>

CallParseTarget ==
  /\ call.fn = "parse_target"
  /\ ~call.returned
  /\ Return(parse_target(call.arg))

CallGetConflictedEntries ==
  /\ call.fn = "get_conflicted_entries"
  /\ ~call.returned
  /\ Return(get_conflicted_entries(call.arg.rc, call.arg.stdout))

CallMakeChangelogDescription ==
  /\ call.fn = "make_changelog_description"
  /\ ~call.returned
  /\ Return(make_changelog_description(call.arg.body, call.arg.url, call.arg.author))

CallChangelogExtractMakeChangelogDescription ==
  /\ call.fn = "changelog_extract.make_changelog_description"
  /\ ~call.returned
  /\ Return(changelog_extract_make_changelog_description(
              call.arg.body, call.arg.url, call.arg.author))

CallsNext ==
  \/ CallParseTarget
  \/ CallGetConflictedEntries
  \/ CallMakeChangelogDescription
  \/ CallChangelogExtractMakeChangelogDescription

Calls == CallsInit /\ [][CallsNext]_vars

\* ----------------------------------------------------------------- claims

Done == pc = "done"

Events == DOMAIN log

IsGit(e, what) == e.op = "git" /\ e.arg = what

IsPush(e) == e.op = "push"

IsPrompt(e) == e.op = "prompt"

\* The operator typed y or yes, in any letter case, white space aside.
SaidYes(e) == IsPrompt(e) /\ Lower(Strip(e.txt)) \in {<<"y">>, <<"y", "e", "s">>}

Declined == \E i \in Events : IsPrompt(log[i]) /\ ~SaidYes(log[i])

TempDirCreated == \E i \in Events : log[i].op = "fs" /\ log[i].arg = "mkdtemp"

Removed == \E i \in Events : log[i].op = "fs" /\ log[i].arg = "rmtree"

\* The cherry-pick failed and the classifier found conflicted paths.
ConflictsFound ==
  /\ \E i \in Events : IsGit(log[i], "cherry-pick -m 1") /\ log[i].rc # 0
  /\ loc.conflicted # <<>>

\* C1: in the primary workflow, when the cherry-pick failed and a conflicted
\* path was found, the working copy directory and the backport branch with
\* its cherry-pick in progress exist when the process has exited, however the
\* working copy was obtained.
C1_ConflictStateLeftInPlace ==
  (Done /\ ConflictsFound) =>
    wc.exists /\ wc.isGit /\ wc.backport /\ wc.head = "backport" /\ wc.cherryPick

\* C2: with neither --repo-dir nor --work-dir, the temporary work directory
\* the primary workflow created is gone when the process has exited, on every
\* exit path after its creation.
C2_TempDirRemoved ==
  (Done /\ TempDirCreated) => ~work_dir_exists /\ ~wc.exists /\ Removed

\* The conflict path of a run that cloned into a temporary directory.
C2_Witness ==
  /\ Done
  /\ TempDirCreated
  /\ ConflictsFound
  /\ exit_code = ConflictStatus
  /\ ~work_dir_exists

\* C3: a working copy given with --repo-dir and a work directory given with
\* --work-dir are never deleted: no step of the primary or the resume
\* workflow takes either from existing to not existing.
C3_SuppliedDirsNeverDeleted ==
  [][(args.repo_dir \/ args.work_dir) =>
       /\ wc.exists => wc'.exists
       /\ work_dir_exists => work_dir_exists'
       /\ ~Removed']_vars

\* A run that cloned into --work-dir and left conflicts there.
C3_Witness ==
  /\ Done
  /\ ~args.repo_dir
  /\ args.work_dir
  /\ ConflictsFound
  /\ wc.exists
  /\ work_dir_exists

Destructive(e) == IsGit(e, "branch -D backport") \/ IsGit(e, "cherry-pick --abort")

\* C4: a destructive command (git branch -D of the backport branch, git
\* cherry-pick --abort) is preceded in the same run by a prompt the operator
\* answered yes; a backport branch that existed when the run started is
\* created anew only after such a prompt.
C4_DestructiveOnlyAfterYes ==
  /\ \A i \in Events :
       Destructive(log[i]) => \E j \in 1..(i - 1) : SaidYes(log[j])
  /\ \A i \in Events :
       (wc0.backport /\ IsGit(log[i], "checkout -b backport") /\ log[i].rc = 0) =>
         \E j \in 1..(i - 1) : SaidYes(log[j])

\* The backport branch of an earlier run was deleted and made anew.
C4_Witness ==
  /\ Done
  /\ wc0.backport
  /\ \E i, j \in Events :
       /\ i < j
       /\ IsGit(log[i], "branch -D backport") /\ log[i].rc = 0
       /\ IsGit(log[j], "checkout -b backport") /\ log[j].rc = 0

\* The operator declined the prompt of the destructive recovery.
RecoveryDeclined ==
  \E i \in Events :
    IsPrompt(log[i]) /\ log[i].arg = "recreate from clean target" /\ ~SaidYes(log[i])

\* C5 as stated: when the checkout of the target branch in a caller-supplied
\* working copy fails with unresolved state and the operator declines the
\* recovery, the working copy at exit equals the working copy at the start
\* and the exit status is 0.
C5_DeclineLeavesWorkingCopyAsStarted ==
  (Done /\ RecoveryDeclined) => wc = wc0 /\ exit_code = 0

\* C5 as amended: in that case the exit status is 0 and the working copy at
\* exit differs from the one at the start at most in what the git fetch of
\* the target branch brought in; the run issued no other git command than
\* that fetch and the failed checkout.
C5_DeclineLeavesAllButFetched ==
  (Done /\ RecoveryDeclined) =>
    /\ exit_code = 0
    /\ wc = [wc0 EXCEPT !.stale = FALSE]
    /\ \A i \in Events :
         log[i].op \in {"git", "push"} =>
           \/ IsGit(log[i], "fetch origin target") /\ log[i].rc = 0
           \/ IsGit(log[i], "checkout target") /\ log[i].rc # 0

\* The recovery was declined in a working copy whose target branch origin
\* had moved ahead of.
C5_Witness ==
  /\ Done
  /\ RecoveryDeclined
  /\ wc0.stale
  /\ wc0.cherryPick
  /\ wc0.status # <<>>

IsReplay(e) == IsGit(e, "cherry-pick -m 1") \/ IsGit(e, "cherry-pick --continue")

\* The commands main() runs through run(), which raises on a non-zero code.
CheckedCommands ==
  {"add .", "branch --show-current", "fetch origin target", "pull origin target",
   "branch -D backport", "clone", "checkout -b backport", "fetch origin sha",
   "remote set-url upstream", "fetch upstream sha"}

\* A checked command that failed; git checkout of the target is checked from
\* its second issue on.
CheckedFailure(j) ==
  /\ log[j].op = "git"
  /\ log[j].rc # 0
  /\ \/ log[j].arg \in CheckedCommands
     \/ /\ log[j].arg = "checkout target"
        /\ \E k \in 1..(j - 1) : IsGit(log[k], "checkout target")

\* C6: git push is issued only after the replay of the run (cherry-pick -m 1,
\* or cherry-pick --continue) returned 0, never after a failed replay, a
\* declined prompt or a failed checked command; the primary workflow pushes
\* the backport branch.
C6_PushOnlyAfterReplay ==
  \A i \in Events :
    IsPush(log[i]) =>
      /\ \E j \in 1..(i - 1) : IsReplay(log[j]) /\ log[j].rc = 0
      /\ \A j \in 1..(i - 1) :
           /\ IsReplay(log[j]) => log[j].rc = 0
           /\ IsPrompt(log[j]) => SaidYes(log[j])
           /\ ~CheckedFailure(j)
           /\ ~IsPush(log[j])
      /\ ~args.conflicts_resolved => log[i].arg = "backport"

\* The primary workflow pushed the backport branch.
C6_Witness ==
  /\ Done
  /\ ~args.conflicts_resolved
  /\ pushed = {"backport"}
  /\ wc.picked

PushedOk == \E i \in Events : IsPush(log[i]) /\ log[i].rc = 0

\* A required argument is missing: argparse's parser.error.
UsageError ==
  IF args.conflicts_resolved
  THEN ~args.repo_dir \/ args.target = <<>>
  ELSE args.pr = <<>> \/ (~args.make_description /\ args.target = <<>>)

\* --make-description without --target printed the description.
DescriptionOnlyPrinted ==
  /\ ~args.conflicts_resolved
  /\ args.make_description
  /\ args.target = <<>>
  /\ \E i \in Events : log[i].op = "print" /\ log[i].arg = "description"

\* C7 as stated: the exit status is 0 exactly when the branch was pushed or
\* the operator declined a prompt, and 1 on every other outcome.
C7_ZeroIffPushedOrDeclined ==
  Done => exit_code = (IF PushedOk \/ Declined THEN 0 ELSE 1)

\* C7 as amended: the exit status is 2 when a required argument is missing;
\* otherwise 0 exactly when the branch was pushed, the operator declined a
\* prompt, or --make-description alone printed the description; and 1 on
\* every other outcome.
C7_ExitStatus ==
  Done => exit_code = (IF UsageError THEN 2
                       ELSE IF PushedOk \/ Declined \/ DescriptionOnlyPrinted THEN 0
                       ELSE 1)

\* A run in the caller's working copy has ended with conflicts left for
\* manual resolution and status 1.
C7_Witness ==
  /\ Done
  /\ ConflictsFound
  /\ args.repo_dir
  /\ exit_code = 1

\* C8 as stated: a failed replay with conflicted paths exits with a non-zero
\* status that differs from the status of a fatal error.
C8_ConflictStatusDistinct ==
  (Done /\ ConflictsFound) => exit_code # 0 /\ exit_code # ErrorStatus

\* C8 as amended: a failed replay with conflicted paths exits with the
\* non-zero status 1, the status a fatal error exits with too.
C8_ConflictStatusIsErrorStatus ==
  (Done /\ ConflictsFound) => exit_code # 0 /\ exit_code = 1 /\ exit_code = ErrorStatus

\* A run that reported two conflicted paths has ended.
C8_Witness ==
  /\ Done
  /\ ConflictsFound
  /\ Len(loc.conflicted) = 2
  /\ ~traceback

\* The labels of the five conflict codes, as documented.
DocumentedLabel(code) ==
  CASE code = <<"U", "U">> -> "both modified"
    [] code = <<"A", "A">> -> "both added"
    [] code = <<"D", "D">> -> "both deleted"
    [] code = <<"D", "U">> -> "modify/delete (deleted by us, changed by them)"
    [] code = <<"U", "D">> -> "modify/delete (changed by us, deleted by them)"
    [] OTHER -> "none"

\* The report lines expected for the unmerged lines of the working copy: one
\* for each line with a conflict code, none when git status failed.
RECURSIVE ExpectedReport(_)
ExpectedReport(lines) ==
  IF lines = <<>> THEN <<>>
  ELSE LET line == Head(lines)
           label == DocumentedLabel(<<line[1], line[2]>>)
       IN  (IF label = "none" THEN <<>>
            ELSE <<Event("print", label, 0, SubSeq(line, 4, Len(line)))>>)
           \o ExpectedReport(Tail(lines))

StatusQueried == \E i \in Events : IsGit(log[i], "status --porcelain -u")

StatusRc == log[CHOOSE i \in Events : IsGit(log[i], "status --porcelain -u")].rc

IsReportLine(e) == e.op = "print" /\ e.arg \in {DocumentedLabel(c) : c \in ConflictCodes}

Printed(what) == \E i \in Events : log[i] = Say(what)

\* C9: a failed replay is classified by the conflict list.  With no
\* conflicted path it takes the fatal path: RuntimeError, no report line.
\* With conflicted paths it takes the reporting path: one report line for
\* each conflicted path, with its category, then both resolution
\* instructions, and the fatal error is never raised.
C9_ReplayFailureClassified ==
  (StatusQueried /\ pc \in {"describe", "except"}) =>
    LET expected == IF StatusRc = 0 THEN ExpectedReport(wc.status) ELSE <<>>
    IN  IF expected = <<>>
        THEN /\ pc = "except"
             /\ \A i \in Events : ~IsReportLine(log[i])
             /\ ~Printed("Conflicts in files")
        ELSE /\ pc = "describe"
             /\ loc.pending = ConflictStatus
             /\ SelectSeq(log, IsReportLine) = expected
             /\ Printed("Resolve conflicts, then run")
             /\ Printed("Or after resolving")
             /\ ~Printed("Error")

\* The report of a cherry-pick that left two conflicted paths.
C9_Witness ==
  /\ pc = "describe"
  /\ StatusQueried
  /\ Len(wc.status) = 2
  /\ Len(loc.conflicted) = 2

\* C10: the resume workflow on a working copy with no cherry-pick in progress
\* exits with status 1, leaves the working copy as it was and issues no git
\* add, no cherry-pick --continue and no push.
C10_ResumeWithoutCherryPick ==
  (Done /\ args.conflicts_resolved /\ ~UsageError /\ ~wc0.cherryPick) =>
    /\ exit_code = 1
    /\ wc = wc0
    /\ pushed = {}
    /\ \A i \in Events :
         /\ ~IsPush(log[i])
         /\ log[i].op = "git" => log[i].arg = "rev-parse CHERRY_PICK_HEAD"

\* The resume workflow looked for CHERRY_PICK_HEAD in a git working copy and
\* did not find it.
C10_Witness ==
  /\ Done
  /\ args.conflicts_resolved
  /\ wc0.isGit
  /\ ~wc0.cherryPick
  /\ \E i \in Events : IsGit(log[i], "rev-parse CHERRY_PICK_HEAD") /\ log[i].rc # 0

\* The API said the pull request is not merged, or has no merge commit.
NotBackportablePr ==
  \E i \in Events : log[i].op = "api"
                     /\ log[i].txt \in {<<"not merged">>, <<"no merge commit">>}

\* C11: when the pull request is not merged or has no merge commit id, the
\* primary workflow fails with nothing done: no directory made or removed,
\* no git command issued, the working copy as it was.
C11_NotBackportableNoSideEffect ==
  NotBackportablePr =>
    /\ Done /\ exit_code # 0
    /\ \A i \in Events : log[i].op \notin {"git", "push", "fs"}
    /\ wc = wc0
    /\ pushed = {}

\* A pull request without a merge commit ended a run that would have made a
\* temporary directory.
C11_Witness ==
  /\ Done
  /\ NotBackportablePr
  /\ ~args.repo_dir /\ ~args.work_dir
  /\ \E i \in Events : log[i].txt = <<"no merge commit">>

\* A --target that parse_target refuses, and a --pr that parse_pr_url
\* refuses in a workflow that takes a pull request (the resume workflow takes
\* the working copy and the target only).
MalformedTarget == args.target # <<>> /\ ~parse_target(args.target).ok

MalformedPr ==
  ~args.conflicts_resolved /\ args.pr # <<>> /\ ~parse_pr_url(args.pr).ok

ErrorLines ==
  {i \in Events : log[i].op = "print"
                   /\ log[i].arg \in {"Error", "Error: not a git repository",
                                      "Error: no cherry-pick in progress"}}

\* The run ended on a fatal error: with status 1, and neither on the report
\* of conflicts nor on a cherry-pick --continue that git refused.
FatalError ==
  /\ Done
  /\ exit_code = ErrorStatus
  /\ ~ConflictsFound
  /\ ~\E i \in Events : IsGit(log[i], "cherry-pick --continue") /\ log[i].rc # 0

\* C13: every fatal error ends the process through the handled path that
\* prints one prefixed error line, and none ends it as an uncaught exception
\* with a stack trace.
C13_FatalErrorsHandled ==
  FatalError => ~traceback /\ Cardinality(ErrorLines) = 1

\* --make-description together with the primary workflow.
Combined == args.make_description /\ ~args.conflicts_resolved /\ args.target # <<>>

\* Where the description was rendered.
Renders == {i \in Events : log[i].op = "render"}

\* The event with which the workflow reached a terminal state that is not
\* fatal: the push that worked, the prompt declined, the end of the report
\* of the conflicts.
TerminalAt(i) ==
  \/ IsPush(log[i]) /\ log[i].rc = 0
  \/ IsPrompt(log[i]) /\ ~SaidYes(log[i])
  \/ log[i].op = "print" /\ log[i].arg = "Or after resolving"

\* C14: with --make-description and the full workflow, the description is
\* rendered once the workflow has pushed, has been declined or has reported
\* conflicts, in each of the three cases, and never before: no rendering
\* precedes the terminal event and no step of the workflow follows one.
C14_DescriptionAfterTerminalState ==
  Combined =>
    /\ \A r \in Renders : \E t \in 1..(r - 1) : TerminalAt(t)
    /\ \A r \in Renders : \A j \in Events :
         j > r => log[j].op \notin {"git", "push", "prompt"}
    /\ (Done /\ (PushedOk \/ Declined \/ ConflictsFound)) => Cardinality(Renders) = 1

\* A run with --make-description ended with conflicts reported and a
\* description that is not empty printed after the report.
C14_Witness ==
  /\ Done
  /\ Combined
  /\ ConflictsFound
  /\ \E r \in Renders : log[r].txt # <<>> /\ TerminalAt(r - 2)

Returned(fn) == call.fn = fn /\ call.returned

\* C15: for every string, parse_target fails with a format error or returns
\* a pair of two non-empty parts, the text before the last ":" and the text
\* after it; it fails when the string has no ":" or a side is empty.
C15_ParseTargetParts ==
  Returned("parse_target") =>
    LET s == call.arg
        colons == {i \in 1..Len(s) : s[i] = ":"}
        last == CHOOSE i \in colons : \A j \in colons : j <= i
        before == SubSeq(s, 1, last - 1)
        after == SubSeq(s, last + 1, Len(s))
    IN  IF colons = {} THEN ~call.ret.ok
        ELSE IF before = <<>> \/ after = <<>> THEN ~call.ret.ok
        ELSE call.ret.ok => /\ call.ret.repo # <<>>
                            /\ call.ret.branch # <<>>
                            /\ call.ret.repo = before
                            /\ call.ret.branch = after

\* The path a status line names: the new path of "old -> new", or the text
\* that follows the code and its space.
NamedPath(line) ==
  LET arrows == {i \in 4..(Len(line) - 3) : SubSeq(line, i, i + 3) = <<" ", "-", ">", " ">>}
  IN  IF arrows = {} THEN SubSeq(line, 4, Len(line))
      ELSE SubSeq(line, Max(arrows) + 4, Len(line))

\* The entries the documentation promises for the lines, in their order.
RECURSIVE ExpectedEntries(_)
ExpectedEntries(lines) ==
  IF lines = <<>> THEN <<>>
  ELSE LET line == Head(lines)
           label == DocumentedLabel(SubSeq(line, 1, 2))
       IN  (IF label = "none" THEN <<>>
            ELSE <<[path |-> NamedPath(line), label |-> label]>>)
           \o ExpectedEntries(Tail(lines))

\* C16: for every sequence of porcelain status lines the classifier
\* returns, in the order of the input, exactly the entries of the lines
\* whose code is UU, AA, DD, DU or UD, each with its documented label and
\* with "old -> new" resolved to the new path; other lines give no entry.
C16_ConflictEntriesClassified ==
  (Returned("get_conflicted_entries") /\ call.arg.rc = 0) =>
    call.ret = ExpectedEntries(call.arg.stdout)

\* The classifier returned one entry, for the new path, for an output of a
\* one-sided add followed by a conflict on a renamed path.
C16_Witness ==
  /\ Returned("get_conflicted_entries")
  /\ call.arg.rc = 0
  /\ call.arg.stdout = << <<"U", "A", " ", "f">>,
                          <<"U", "U", " ", "l", " ", "-", ">", " ", "m">> >>
  /\ call.ret = <<[path |-> <<"m">>, label |-> "both modified"]>>

\* Whether a body has a category header, and an entry header.
HasCategory(body) == CategorySearch(body) # <<>>
HasEntry(body) == EntrySearch(body) # <<>>

\* C17: the description is composed of the sections found and of nothing
\* else: empty for an empty body and for a body with neither section, the
\* category section alone, the entry section alone, or the category section,
\* one blank line, the entry section; a section found is not empty and has
\* no white space at the joint.
C17_DescriptionComposed ==
  Returned("make_changelog_description") =>
    LET a == call.arg
        cat == CategoryPart(a.body)
        entry == EntryPart(a.body, a.url, a.author)
    IN  /\ HasCategory(a.body) => cat # <<>> /\ ~IsSpace(cat[Len(cat)])
        /\ HasEntry(a.body) => entry # <<>> /\ ~IsSpace(entry[1])
        /\ call.ret = IF HasCategory(a.body) /\ HasEntry(a.body)
                      THEN cat \o <<"\n", "\n">> \o entry
                      ELSE IF HasCategory(a.body) THEN cat
                      ELSE IF HasEntry(a.body) THEN entry
                      ELSE <<>>

\* A description of a body with both sections has been returned.
C17_Witness ==
  /\ Returned("make_changelog_description")
  /\ HasCategory(call.arg.body)
  /\ HasEntry(call.arg.body)
  /\ Contains(call.ret, <<"x", "\n", "\n", "#", "#", "#", " ", EntryOpen>>)

\* The entry section of a description: what follows the category section
\* and the blank line when the body has a category.
EntrySectionOf(ret, body) ==
  IF HasCategory(body) THEN SubSeq(ret, Len(CategoryPart(body)) + 3, Len(ret)) ELSE ret

\* C18: for every body whose entry header matches, a header wrapped over
\* lines included, the entry section rendered is the header followed by the
\* first non-blank line of content after it, and the section as captured
\* when no line of content exists (calls without the attribution suffix).
C18_EntryReducedToFirstContentLine ==
  (/\ Returned("make_changelog_description")
   /\ HasEntry(call.arg.body)
   /\ call.arg.url = <<>>) =>
    LET body == call.arg.body
        m == EntrySearch(body)
        start == find_line_start(body, m[1])
        end == find_section_end(body, m[2], NextSection)
        header == SubSeq(body, start + 1, m[2])
        content == Strip(FirstNonBlank(SplitLines(SubSeq(body, m[2] + 1, end))))
    IN  EntrySectionOf(call.ret, body) =
          IF content # <<>> THEN header \o <<"\n">> \o content
          ELSE Strip(SubSeq(body, start + 1, end))

\* A command run in a checked context returned non-zero: a checked git
\* command, or the push.
CheckedFailed(i) == CheckedFailure(i) \/ (IsPush(log[i]) /\ log[i].rc # 0)

Succeeded(i, what) == IsGit(log[i], what) /\ log[i].rc = 0

\* C19: in the primary workflow the working copy is prepared, then the
\* backport branch created, then the merge commit fetched, then the
\* cherry-pick issued, then the push: the cherry-pick follows a branch
\* creation and a fetch of the merge commit that both succeeded, in this
\* order and after a clone or pull that succeeded, the push follows a
\* cherry-pick, and when a checked command has returned non-zero no git
\* command follows it.
C19_StepOrder ==
  ~args.conflicts_resolved =>
    /\ \A i \in Events :
         IsGit(log[i], "cherry-pick -m 1") =>
           \E f \in 1..(i - 1) :
             /\ Succeeded(f, "fetch origin sha") \/ Succeeded(f, "fetch upstream sha")
             /\ \E b \in 1..(f - 1) :
                  /\ Succeeded(b, "checkout -b backport")
                  /\ \E p \in 1..(b - 1) :
                       Succeeded(p, "clone") \/ Succeeded(p, "pull origin target")
    /\ \A i \in Events :
         IsPush(log[i]) => \E c \in 1..(i - 1) : Succeeded(c, "cherry-pick -m 1")
    /\ \A i \in Events :
         CheckedFailed(i) => \A j \in (i + 1)..Len(log) : log[j].op \notin {"git", "push"}

\* A run that had created the backport branch ended after the fetch of the
\* merge commit from upstream failed.
C19_Witness ==
  /\ Done
  /\ ~args.conflicts_resolved
  /\ \E f \in Events :
       /\ IsGit(log[f], "fetch upstream sha") /\ log[f].rc # 0
       /\ \E b \in 1..(f - 1) : Succeeded(b, "checkout -b backport")

\* The operator confirmed the destructive recovery, and the abort, the
\* checkout and the pull of the target that follow all succeeded.
RecoveryPrepared ==
  \E y \in Events :
    /\ IsPrompt(log[y]) /\ log[y].arg = "recreate from clean target" /\ SaidYes(log[y])
    /\ \E a \in (y + 1)..Len(log) :
         /\ Succeeded(a, "cherry-pick --abort")
         /\ \E c \in (a + 1)..Len(log) :
              /\ Succeeded(c, "checkout target")
              /\ \E p \in (c + 1)..Len(log) : Succeeded(p, "pull origin target")

\* C20: after a confirmed recovery whose abort, checkout and pull succeeded,
\* the workflow deletes the stale backport branch if there is one and goes on
\* to create the backport branch, whether or not a stale one existed.
C20_RecoveryContinuesToBranch ==
  (Done /\ RecoveryPrepared) =>
    /\ wc0.backport => \E d \in Events : Succeeded(d, "branch -D backport")
    /\ \E b \in Events : Succeeded(b, "checkout -b backport")

\* C21: the merge commit is fetched from origin when the pull request is one
\* of the target repository and from upstream otherwise, and whenever the
\* fetch from upstream is issued the remote upstream is registered with the
\* URL of the source repository.
C21_FetchRemote ==
  /\ \A i \in Events :
       /\ IsGit(log[i], "fetch origin sha") => loc.target_repo = loc.pr_repo
       /\ IsGit(log[i], "fetch upstream sha") => loc.target_repo # loc.pr_repo
  /\ pc = "fetch_upstream" => wc.upstream = "source"

\* The first checkout of the target branch, at event i, failed.
FirstCheckoutFailed(i) ==
  /\ IsGit(log[i], "checkout target")
  /\ log[i].rc # 0
  /\ \A k \in 1..(i - 1) : ~IsGit(log[k], "checkout target")

\* The text has one of the three words, in any letter case.
HasUnresolvedWord(text) ==
  \E w \in {<<"r", "e", "s", "o", "l", "v", "e">>, <<"u", "n", "m", "e", "r", "g", "e", "d">>,
             <<"i", "n", "d", "e", "x">>} :
    \E k \in 1..(Len(text) - Len(w) + 1) :
      \A c \in 1..Len(w) : LowerChar(text[k + c - 1]) = w[c]

IsRecoveryPrompt(e) == IsPrompt(e) /\ e.arg = "recreate from clean target"

\* C22: when the checkout of the target branch fails in the caller's working
\* copy, the recovery prompt is offered exactly when the error text has
\* "resolve", "unmerged" or "index" in any letter case; a failure without
\* them is a fatal command failure, with no prompt and no further command.
C22_RecoveryPromptOnUnresolved ==
  /\ \A i \in Events :
       FirstCheckoutFailed(i) =>
         IF HasUnresolvedWord(log[i].txt)
         THEN \/ pc = "recovery_prompt"
              \/ \E j \in (i + 1)..Len(log) : IsRecoveryPrompt(log[j])
         ELSE /\ \A j \in (i + 1)..Len(log) : log[j].op \notin {"prompt", "git", "push"}
              /\ pc \in {"except", "finally", "done"}
              /\ Done => exit_code = ErrorStatus /\ Printed("Error")
  /\ \A j \in Events :
       IsRecoveryPrompt(log[j]) =>
         \E i \in 1..(j - 1) : FirstCheckoutFailed(i) /\ HasUnresolvedWord(log[i].txt)

\* The recovery prompt was offered after a checkout that failed with the
\* word Resolve, capital letter included.
C22_Witness ==
  \E i \in Events :
    /\ FirstCheckoutFailed(i)
    /\ log[i].txt = <<"R", "e", "s", "o", "l", "v", "e">>
    /\ \E j \in (i + 1)..Len(log) : IsRecoveryPrompt(log[j])

\* C23: in the resume workflow, when git cherry-pick --continue fails the
\* process exits with status 1 and issues no further git command, nothing is
\* pushed, and the cherry-pick is still in progress in the working copy, so
\* that the checks of the resume workflow pass again.
C23_ContinueFailureIsFinal ==
  \A i \in Events :
    (IsGit(log[i], "cherry-pick --continue") /\ log[i].rc # 0) =>
      /\ Done
      /\ exit_code = 1
      /\ \A j \in (i + 1)..Len(log) : log[j].op \notin {"git", "push", "fs"}
      /\ pushed = {}
      /\ wc.exists /\ wc.isGit
      /\ is_cherry_pick_in_progress(wc)

\* A resume has ended on a git cherry-pick --continue that failed.
C23_Witness ==
  /\ Done
  /\ args.conflicts_resolved
  /\ \E i \in Events : IsGit(log[i], "cherry-pick --continue") /\ log[i].rc # 0

\* An invocation of the primary workflow: not a resume, and both --target
\* and --pr given.
PrimaryRun == ~args.conflicts_resolved /\ args.target # <<>> /\ args.pr # <<>>

\* The positions of the primary workflow in the order of the text of main().
PrimaryOrder ==
  <<"start", "parse_target", "merge_sha", "working_copy", "fetch_target",
    "checkout_target", "recovery_prompt", "abort", "checkout_again", "pull_recovered",
    "delete_stale", "pull_target", "clone", "branch_exists", "branch_prompt",
    "delete_branch", "create_branch", "fetch_commit", "fetch_upstream", "cherry_pick",
    "replay_failed", "push", "describe", "describe_exit", "except", "finally", "done">>

Position(label) == CHOOSE k \in 1..Len(PrimaryOrder) : PrimaryOrder[k] = label

\* The four outcomes, each by its own mark in the run.
OutcomePushed == PushedOk
OutcomeConflicts == ConflictsFound
OutcomeDeclined == Declined
OutcomeFatal ==
  traceback \/ Printed("Error") \/ Printed("Error: not a git repository")

OutcomeCount ==
  (IF OutcomePushed THEN 1 ELSE 0) + (IF OutcomeConflicts THEN 1 ELSE 0)
  + (IF OutcomeDeclined THEN 1 ELSE 0) + (IF OutcomeFatal THEN 1 ELSE 0)

\* How often the command of event i was issued in the run.
Attempts(i) ==
  Cardinality({j \in Events : log[j].op = log[i].op /\ log[j].arg = log[i].arg})

\* The state part of C24: a finished run has exactly one outcome, and no git
\* command was issued more than once, the checkout of the target more than
\* twice; a run that has not finished has a step to take.
PrimaryRunBounded ==
  PrimaryRun =>
    /\ Done => OutcomeCount = 1
    /\ \A i \in Events :
         log[i].op \in {"git", "push"} =>
           Attempts(i) <= (IF log[i].arg = "checkout target" THEN 2 ELSE 1)
    /\ ~Done => ENABLED Next

\* C24: every step of the primary workflow returning, an invocation ends in
\* exactly one of pushed, conflicts left, declined, fatal failure.  Every
\* step moves main() forward in its text (no loop, no retry) and a run that
\* has not ended has a step to take, so the run ends within as many steps as
\* main() has positions; no git command is issued twice and the checkout of
\* the target at most twice.
C24_PrimaryRunsOnceThrough ==
  /\ []PrimaryRunBounded
  /\ [][PrimaryRun => Position(pc') > Position(pc)]_vars

\* A run has pushed after the recovery, with the target checked out twice.
C24_Witness ==
  /\ Done
  /\ PrimaryRun
  /\ PushedOk
  /\ \E i \in Events : IsGit(log[i], "checkout target") /\ Attempts(i) = 2

\* The lines that follow the end of the entry header up to the end of the
\* entry section: the first is what is left of the header's last line.
LinesAfterEntryHeader(body) ==
  LET m == EntrySearch(body)
      end == find_section_end(body, m[2], NextSection)
  IN  SplitLines(SubSeq(body, m[2] + 1, end))

\* A blank line comes directly after the entry header.
BlankLineAfterEntryHeader(body) ==
  /\ HasEntry(body)
  /\ Len(LinesAfterEntryHeader(body)) >= 2
  /\ Strip(LinesAfterEntryHeader(body)[2]) = <<>>

\* What the extractor of src/backporter returns for the arguments of the call.
PackagedDescription ==
  make_changelog_description(call.arg.body, call.arg.url, call.arg.author)

\* C25 as stated: the extractor of src/changelog_extract.py returns what the
\* one of src/backporter returns for the same body, url and author, unless a
\* blank line comes directly after the entry header.
C25_ExtractorsAgreeUnlessBlankLine ==
  Returned("changelog_extract.make_changelog_description") =>
    (call.ret # PackagedDescription => BlankLineAfterEntryHeader(call.arg.body))

\* The lines of the entry section as both extractors capture it.
EntrySectionLines(body) ==
  LET m == EntrySearch(body)
      start == find_line_start(body, m[1])
      end == find_section_end(body, m[2], NextSection)
  IN  SplitLines(Strip(SubSeq(body, start + 1, end)))

\* The second line of the entry section is blank or starts with white space.
SecondLineBlankOrIndented(body) ==
  /\ HasEntry(body)
  /\ Len(EntrySectionLines(body)) >= 2
  /\ \/ EntrySectionLines(body)[2] = <<>>
     \/ IsSpace(EntrySectionLines(body)[2][1])

\* C25 amended: the two extractors return different strings exactly when the
\* line after the first line of the entry section is blank or starts with
\* white space; on every other body, url and author they return the same.
C25_ExtractorsDifferOnBlankOrIndented ==
  Returned("changelog_extract.make_changelog_description") =>
    (call.ret # PackagedDescription <=> SecondLineBlankOrIndented(call.arg.body))

\* The header is directly followed by a content line that starts with white
\* space, and the two extractors have returned different descriptions.
C25_Witness ==
  /\ Returned("changelog_extract.make_changelog_description")
  /\ HasEntry(call.arg.body)
  /\ ~BlankLineAfterEntryHeader(call.arg.body)
  /\ SecondLineBlankOrIndented(call.arg.body)
  /\ call.ret # PackagedDescription
  /\ Contains(call.ret, <<"\n", " ", "z">>)

====
